---- MODULE Spec2Model ----
(***************************************************************************)
(* Polytope bias estimation (PBE) and facet-wise reconstruction for        *)
(* ReLU-layers, after src/Code.ipynb.                                      *)
(*                                                                         *)
(* Frames live in R^2 (n = 2).  Numbers are exact: a float is a pair       *)
(* <<num, den>> with den >= 0; den = 0 encodes the IEEE specials           *)
(* (<<0,0>> = nan, <<1,0>> = +inf, <<-1,0>> = -inf).  Rows are taken from  *)
(* a palette of vectors with rational Euclidean norm, so np.linalg.norm    *)
(* is exact on every frame of the model.                                   *)
(***************************************************************************)
EXTENDS Integers, Sequences, FiniteSets, TLC

(* ------------------------------ bounds -------------------------------- *)
MaxRows == 5
MaxRadius == 2

(* the dimension n = W.shape[1] of every frame of the model               *)
Dim == 2

(* --------------------------- float arithmetic ------------------------- *)
Abs(k) == IF k < 0 THEN -k ELSE k

Sgn(k) == IF k < 0 THEN -1 ELSE IF k > 0 THEN 1 ELSE 0

RECURSIVE Gcd(_, _)
Gcd(a, b) == IF b = 0 THEN a ELSE Gcd(b, a % b)

\* the float with numerator p and denominator q >= 0, in lowest terms
Q(p, q) ==
    IF q = 0 THEN <<Sgn(p), 0>>
    ELSE LET g == Gcd(Abs(p), q) IN <<p \div g, q \div g>>

Zero == <<0, 1>>
One == <<1, 1>>
NaN == <<0, 0>>

IsNaN(a) == a = NaN
IsFinite(a) == a[2] # 0

QInt(k) == <<k, 1>>

\* IEEE products: nan * anything = nan, inf * 0 = nan
QMul(a, b) == Q(a[1] * b[1], a[2] * b[2])

\* IEEE sums: nan + anything = nan, inf - inf = nan
QAdd(a, b) ==
    IF IsFinite(a) /\ IsFinite(b) THEN Q(a[1] * b[2] + b[1] * a[2], a[2] * b[2])
    ELSE IF IsNaN(a) \/ IsNaN(b) THEN NaN
    ELSE IF IsFinite(a) THEN b
    ELSE IF IsFinite(b) THEN a
    ELSE IF a = b THEN a ELSE NaN

QNeg(a) == <<-a[1], a[2]>>

QSub(a, b) == QAdd(a, QNeg(b))

\* np.reciprocal: 1/0 = inf, 1/inf = 0, 1/nan = nan
QRecip(a) ==
    IF IsNaN(a) THEN NaN
    ELSE IF a[1] > 0 THEN <<a[2], a[1]>>
    ELSE IF a[1] < 0 THEN <<-a[2], -a[1]>>
    ELSE <<1, 0>>

\* a / b; 0/0 = 0 * inf = nan
QDiv(a, b) == QMul(a, QRecip(b))

\* comparisons; every comparison with nan is False
QLt(a, b) ==
    /\ ~IsNaN(a) /\ ~IsNaN(b)
    /\ IF IsFinite(a) /\ IsFinite(b) THEN a[1] * b[2] < b[1] * a[2]
       ELSE IF IsFinite(a) THEN b[1] > 0
       ELSE IF IsFinite(b) THEN a[1] < 0
       ELSE a[1] < b[1]

QLe(a, b) == ~IsNaN(a) /\ ~IsNaN(b) /\ ~QLt(b, a)

QGt(a, b) == QLt(b, a)

\* exact integer square root (every argument in the model is a square)
ISqrt(k) == CHOOSE r \in 0..k : r * r = k

QSqrt(a) == Q(ISqrt(a[1]), ISqrt(a[2]))

RECURSIVE SumSeq(_)
SumSeq(s) == IF s = <<>> THEN Zero ELSE QAdd(Head(s), SumSeq(Tail(s)))

\* np.dot of two vectors of the same length
Dot(u, v) == SumSeq([j \in 1..Len(u) |-> QMul(u[j], v[j])])

\* np.min of a non-empty set of floats: nan if any entry is nan
NpMin(S) ==
    IF NaN \in S THEN NaN
    ELSE CHOOSE a \in S : \A b \in S : QLe(a, b)

\* the 2x2 determinant u[1] v[2] - u[2] v[1]
Cross(u, v) == QSub(QMul(u[1], v[2]), QMul(u[2], v[1]))

(* ------------------------------ inputs -------------------------------- *)
\* row vectors a frame is built from: six unit rows at Pythagorean angles,
\* a row of norm 2 and the zero row
Palette ==
    << <<Zero, One>>,
       <<Q(4, 5), Q(3, 5)>>,
       <<Q(-4, 5), Q(3, 5)>>,
       <<Q(-3, 5), Q(-4, 5)>>,
       <<Zero, QInt(-1)>>,
       <<Q(3, 5), Q(-4, 5)>>,
       <<Zero, QInt(2)>>,
       <<Zero, Zero>> >>

\* a frame: 1..MaxRows distinct palette rows, W[0..m-1], in palette order
Frames ==
    { [i \in 0..(Cardinality(S) - 1) |->
          Palette[CHOOSE p \in S : Cardinality({q \in S : q < p}) = i]] :
      S \in {T \in SUBSET (1..Len(Palette)) :
                 Cardinality(T) >= 1 /\ Cardinality(T) <= MaxRows} }

Rows(W) == Cardinality(DOMAIN W)

\* an array as it is held in memory: every entry computed once (comparing
\* a function makes TLC tabulate it instead of re-evaluating the
\* entry expression at each use)
Array(f) == IF f = <<>> THEN f ELSE f

(* ------------------------------ norm_row ------------------------------ *)
\* np.linalg.norm(W, axis=1)
Norm(W) == Array([i \in DOMAIN W |-> QSqrt(Dot(W[i], W[i]))])

\* W / norm[:, None]; a zero row divides 0 by 0, numpy gives nan and goes
\* on, so the function returns on every W (kind is always "return")
norm_row(W) ==
    LET norm == Norm(W) IN
    [kind |-> "return",
     W_norm |-> Array([i \in DOMAIN W |->
                          Array([j \in 1..Dim |-> QDiv(W[i][j], norm[i])])]),
     norm |-> norm]

(* ----------------------------- is_omnidir ----------------------------- *)
VSub(u, v) == [j \in 1..Len(u) |-> QSub(u[j], v[j])]

QSign(a) == Sgn(a[1])

\* np.linalg.matrix_rank of an m x 2 matrix
matrix_rank(W) ==
    IF \A i \in DOMAIN W : W[i] = <<Zero, Zero>> THEN 0
    ELSE IF \A i, j \in DOMAIN W : Cross(W[i], W[j]) = Zero THEN 1
    ELSE 2

\* 0 = a W[i] + b W[j] + c W[k] with a, b, c >= 0 summing to 1: the weights
\* are proportional to the three cross products, which must not all vanish
OriginInTriangle(W, i, j, k) ==
    LET c1 == QSign(Cross(W[j], W[k]))
        c2 == QSign(Cross(W[k], W[i]))
        c3 == QSign(Cross(W[i], W[j]))
    IN /\ \/ (c1 >= 0 /\ c2 >= 0 /\ c3 >= 0)
          \/ (c1 <= 0 /\ c2 <= 0 /\ c3 <= 0)
       /\ ~(c1 = 0 /\ c2 = 0 /\ c3 = 0)

\* feasibility of  W^T c = 0, sum(c) = 1, c >= 0  (Caratheodory in R^2)
LpFeasible(W) ==
    \/ \E i \in DOMAIN W : W[i] = <<Zero, Zero>>
    \/ \E i, j \in DOMAIN W :
          Cross(W[i], W[j]) = Zero /\ QLt(Dot(W[i], W[j]), Zero)
    \/ \E i, j, k \in DOMAIN W : OriginInTriangle(W, i, j, k)

MsgOptimal == "Optimization terminated successfully."
MsgInfeasible ==
    "The algorithm terminated successfully and determined that the problem is infeasible."
MsgOther == "other status"

\* res['message'] of linprog(ones, A_eq=WW, b_eq=zeros); the objective is
\* constant on the feasible set, so a feasible problem is solved to
\* optimality unless the solver gives up (fault)
linprog(W, fault) ==
    IF fault THEN MsgOther
    ELSE IF LpFeasible(W) THEN MsgOptimal
    ELSE MsgInfeasible

\* ret is the returned value ("None" when the function falls off its end or
\* returns the value of the call that writes the message), out the message
\* written, lp whether linprog was called
is_omnidir(W, fault) ==
    IF matrix_rank(W) # Dim
    THEN [ret |-> "None", out |-> "The system is not a frame", lp |-> FALSE]
    ELSE LET msg == linprog(W, fault) IN
         IF msg = MsgInfeasible THEN [ret |-> "False", out |-> "", lp |-> TRUE]
         ELSE IF msg = MsgOptimal THEN [ret |-> "True", out |-> "", lp |-> TRUE]
         ELSE [ret |-> "None", out |-> "", lp |-> TRUE]

(* ------------------------------- facets ------------------------------- *)
Orient(W, i, j, k) == QSign(Cross(VSub(W[j], W[i]), VSub(W[k], W[i])))

\* ConvexHull needs a full-dimensional point set (QhullError otherwise)
FullDim(W) == \E i, j, k \in DOMAIN W : Orient(W, i, j, k) # 0

\* {i, j} is a boundary segment of the hull with extreme end points: every
\* other point is on one side, and the ones on its line are inside it
IsHullEdge(W, i, j) ==
    /\ i # j
    /\ \/ \A k \in DOMAIN W : Orient(W, i, j, k) >= 0
       \/ \A k \in DOMAIN W : Orient(W, i, j, k) <= 0
    /\ \A k \in DOMAIN W \ {i, j} :
          Orient(W, i, j, k) = 0 =>
              QLt(Dot(VSub(W[k], W[i]), VSub(W[k], W[j])), Zero)

HullEdges(W) ==
    {e \in (DOMAIN W) \X (DOMAIN W) : e[1] < e[2] /\ IsHullEdge(W, e[1], e[2])}

\* the pairs of E in lexicographic order
RECURSIVE SortedSeq(_)
SortedSeq(E) ==
    IF E = {} THEN <<>>
    ELSE LET e == CHOOSE a \in E :
                     \A b \in E : a[1] < b[1] \/ (a[1] = b[1] /\ a[2] <= b[2])
         IN <<e>> \o SortedSeq(E \ {e})

Rotate(s, r) == [p \in 1..Len(s) |-> s[((p - 1 + r) % Len(s)) + 1]]

Flip(s) == [p \in 1..Len(s) |-> <<s[p][2], s[p][1]>>]

\* the lists facets(W) may return: hull.simplices lists every boundary
\* segment once, in an order and with a vertex order of qhull's choosing;
\* the model takes every rotation of the sorted list, in both vertex orders
facets(W) ==
    IF ~FullDim(W) THEN {}
    ELSE LET s == SortedSeq(HullEdges(W)) IN
         {Rotate(s, r) : r \in 0..(Len(s) - 1)} \cup
         {Flip(Rotate(s, r)) : r \in 0..(Len(s) - 1)}

\* a list a caller writes by hand: row k paired with the next row
CycleList(W) == [p \in 1..Rows(W) |-> <<p - 1, p % Rows(W)>>]

FacetLists(W) == facets(W) \cup {CycleList(W)}

(* ------------------------------- alpha_S ------------------------------ *)
\* u is a non-negative combination of rows of F (in R^2: of one or two rows)
InCone(u, F) ==
    \/ \E j \in DOMAIN F : Cross(F[j], u) = Zero /\ QLt(Zero, Dot(F[j], u))
    \/ \E j, k \in DOMAIN F :
          LET D == Cross(F[j], F[k]) IN
          /\ D # Zero
          /\ QLe(Zero, QDiv(Cross(u, F[k]), D))
          /\ QLe(Zero, QDiv(Cross(F[j], u), D))

\* prob.value for row i: the minimum of <F[i], y> over y = F^T c, c >= 0,
\* ||y|| <= 1.  It is minus the length of the projection of -F[i] on the
\* cone of the rows of F: ||F[i]|| if -F[i] is in the cone, otherwise the
\* projection falls on a generating ray or on 0 (the boundary of a cone in
\* R^2 consists of generating rays)
SocpValue(F, i) ==
    IF InCone([j \in 1..Dim |-> QNeg(F[i][j])], F)
    THEN QNeg(QSqrt(Dot(F[i], F[i])))
    ELSE NpMin({Zero} \cup
               {QDiv(Dot(F[i], F[j]), QSqrt(Dot(F[j], F[j]))) : j \in DOMAIN F})

\* min(sol) over the rows of F
alpha_S(F) == NpMin({SocpValue(F, i) : i \in DOMAIN F})

(* --------------------------------- pbe -------------------------------- *)
Domains == {"sphere", "ball", "cube"}

MsgNotOmni == "The frame is not omnidirectional"
MsgDomain == "Only sphere and ball are supported as data domains"

Range(f) == {f[p] : p \in DOMAIN f}

\* the neighbours taken from the first facet that contains vert only
NeighboursFirstFacet(facetList, vert) ==
    LET hits == {q \in DOMAIN facetList : vert \in Range(facetList[q])} IN
    IF hits = {} THEN {}
    ELSE Range(facetList[CHOOSE p \in hits : \A q \in hits : p <= q])

\* np.unique(np.array(facets)[[vert in facet for facet in facets]])
Neighbours(facetList, vert) ==
    UNION {Range(facetList[p]) : p \in {q \in DOMAIN facetList : vert \in Range(facetList[q])}}

\* the branch on K at the end of a pass of the loop
DomainSelect(K, min_corr) ==
    IF K = "sphere" THEN [end |-> "append", app |-> min_corr]
    ELSE IF K = "ball" THEN [end |-> "append", app |-> NpMin({min_corr, Zero})]
    ELSE [end |-> "return", app |-> NaN]

\* the pass with the test on min_corr dropped: the conic program is solved
\* at every vertex
VisitAlwaysConic(W_norm, facetList, K, vert) ==
    LET neighbours == Neighbours(facetList, vert) IN
    IF neighbours = {}
    THEN [neighbours |-> neighbours, pair_min |-> NaN, socp |-> FALSE,
          min_corr |-> NaN, end |-> "raise", app |-> NaN]
    ELSE
    LET corr_vec == {Dot(W_norm[vert], W_norm[u]) : u \in neighbours}
        pair_min == NpMin(corr_vec)
        min_corr == alpha_S(Array([u \in neighbours |-> W_norm[u]]))
        sel == DomainSelect(K, min_corr)
    IN [neighbours |-> neighbours, pair_min |-> pair_min, socp |-> TRUE,
        min_corr |-> min_corr, end |-> sel.end, app |-> sel.app]

\* one pass of the loop body for vert: what it computes, and how it ends
\* ("append" with the value appended, "return" or "raise")
Visit(W_norm, facetList, K, vert) ==
    LET neighbours == Neighbours(facetList, vert) IN
    IF neighbours = {}
    THEN [neighbours |-> neighbours, pair_min |-> NaN, socp |-> FALSE,
          min_corr |-> NaN, end |-> "raise", app |-> NaN]
    ELSE
    LET corr_vec == {Dot(W_norm[vert], W_norm[u]) : u \in neighbours}
        pair_min == NpMin(corr_vec)
        socp == QLt(pair_min, Zero)
        min_corr == IF socp THEN alpha_S(Array([u \in neighbours |-> W_norm[u]]))
                    ELSE pair_min
        sel == DomainSelect(K, min_corr)
    IN [neighbours |-> neighbours, pair_min |-> pair_min, socp |-> socp,
        min_corr |-> min_corr, end |-> sel.end, app |-> sel.app]

\* for vert in range(vert, m): the passes of the loop body up to the first
\* one that leaves the function (passes[v + 1] is the pass for vertex v)
RECURSIVE Loop(_, _, _, _, _)
Loop(W_norm, facetList, K, m, vert) ==
    IF vert >= m THEN <<>>
    ELSE LET r == Visit(W_norm, facetList, K, vert) IN
         IF r.end # "append" THEN <<r>>
         ELSE <<r>> \o Loop(W_norm, facetList, K, m, vert + 1)

\* the test inverted
NotOmnidirInverted(ret) == ret = "True"

\* if is_omnidir(W) == False   (None == False is False)
NotOmnidir(ret) == ret = "False"

\* the value pbe returns (kind "array": val, kind "str": msg) or the
\* exception it raises (kind "raise": msg), with the calls it made and what
\* the loop did at each vertex it reached
pbe(W, facetList, K, radius, fault) ==
    LET om == is_omnidir(W, fault)
        calls0 == {"is_omnidir"} \cup (IF om.lp THEN {"linprog"} ELSE {})
    IN
    IF NotOmnidir(om.ret)
    THEN [kind |-> "str", msg |-> MsgNotOmni, val |-> <<>>, calls |-> calls0,
          visits |-> <<>>]
    ELSE
    LET nr == norm_row(W)
        m == Rows(W)
        visits == Loop(nr.W_norm, facetList, K, m, 0)
        end == visits[Len(visits)].end
        calls1 == calls0 \cup {"norm_row"} \cup
                  (IF \E p \in DOMAIN visits : visits[p].socp
                   THEN {"alpha_S"} ELSE {})
    IN
    IF end = "raise"
    THEN [kind |-> "raise", msg |-> "ValueError", val |-> <<>>,
          calls |-> calls1, visits |-> visits]
    ELSE IF end = "return"
    THEN [kind |-> "str", msg |-> MsgDomain, val |-> <<>>, calls |-> calls1,
          visits |-> visits]
    ELSE [kind |-> "array", msg |-> "",
          val |-> [v \in 0..(m - 1) |->
                      QMul(QMul(visits[v + 1].app, QRecip(nr.norm[v])),
                           QRecip(QInt(radius)))],
          calls |-> calls1, visits |-> visits]

(* --------------------------- relu, relu_inv --------------------------- *)
\* relu with the bias added instead of subtracted
relu_added_bias(x, W, b) ==
    [i \in DOMAIN W |->
        LET z == QAdd(Dot(W[i], x), b[i]) IN
        IF QGt(z, Zero) THEN z ELSE QMul(z, Zero)]

\* z = np.dot(W, x) - b;  z * (z > 0)   (nan * False is nan)
relu(x, W, b) ==
    [i \in DOMAIN W |->
        LET z == QSub(Dot(W[i], x), b[i]) IN
        IF QGt(z, Zero) THEN z ELSE QMul(z, Zero)]

\* the elements of a set of integers in increasing order
RECURSIVE Ascending(_)
Ascending(S) ==
    IF S = {} THEN <<>>
    ELSE LET a == CHOOSE c \in S : \A d \in S : c <= d
         IN <<a>> \o Ascending(S \ {a})

\* np.linalg.lstsq(A, y, rcond=None)[0] for a k x 2 matrix A: the least-
\* squares solution of minimal norm.  With G = A^T A and r = A^T y it is
\* G^-1 r when A has rank 2, r / trace(G) when A has rank 1 and 0 when A is
\* zero or has no rows.  With a nan in y LAPACK either fails to converge
\* (LinAlgError) or hands back nan
lstsq(A, y) ==
    LET col(c) == [p \in DOMAIN A |-> A[p][c]]
        g11 == Dot(col(1), col(1))
        g12 == Dot(col(1), col(2))
        g22 == Dot(col(2), col(2))
        r1 == Dot(col(1), y)
        r2 == Dot(col(2), y)
        det == QSub(QMul(g11, g22), QMul(g12, g12))
        tr == QAdd(g11, g22)
    IN
    IF \E p \in DOMAIN y : ~IsFinite(y[p])
    THEN {[kind |-> "raise", msg |-> "LinAlgError", x |-> <<NaN, NaN>>],
          [kind |-> "array", msg |-> "", x |-> <<NaN, NaN>>]}
    ELSE IF det # Zero
    THEN {[kind |-> "array", msg |-> "",
           x |-> << QDiv(QSub(QMul(g22, r1), QMul(g12, r2)), det),
                    QDiv(QSub(QMul(g11, r2), QMul(g12, r1)), det) >>]}
    ELSE IF tr # Zero
    THEN {[kind |-> "array", msg |-> "", x |-> <<QDiv(r1, tr), QDiv(r2, tr)>>]}
    ELSE {[kind |-> "array", msg |-> "", x |-> <<Zero, Zero>>]}

\* I = np.where(z > 0)[0]
Support(z) == {i \in DOMAIN z : QGt(z[i], Zero)}

\* the scan without its break: it ends on the last facet, and f_ind is the
\* last facet that matched
ScanStopNoBreak(facetList, I) ==
    LET hits == {p \in DOMAIN facetList : Range(facetList[p]) \subseteq I} IN
    IF hits = {} THEN Len(facetList)
    ELSE CHOOSE p \in hits : \A q \in hits : p >= q

\* the value of i after  for i in range(0, len(facets)): if all(...): break
\* (positions count from 1 here, the code's i is one less)
ScanStop(facetList, I) ==
    LET hits == {p \in DOMAIN facetList : Range(facetList[p]) \subseteq I} IN
    IF hits = {} THEN Len(facetList)
    ELSE CHOOSE p \in hits : \A q \in hits : p <= q

\* the outcomes of relu_inv: x (kind "array") or an exception (kind "raise",
\* named by msg);
\* i and shown are what the message names (facet mode only), f_ind the row
\* indices the solve uses
relu_inv(z, W, b, facetList, mode) ==
    LET I == Support(z)
        p == ScanStop(facetList, I)
        f_ind == IF mode = "facet" THEN facetList[p] ELSE Ascending(I)
        W_f == [q \in DOMAIN f_ind |-> W[f_ind[q]]]
        rhs == [q \in DOMAIN f_ind |-> QAdd(z[f_ind[q]], b[f_ind[q]])]
    IN {[kind |-> s.kind, msg |-> s.msg, x |-> s.x, f_ind |-> f_ind,
         i |-> IF mode = "facet" THEN p - 1 ELSE -1,
         shown |-> IF mode = "facet" THEN f_ind ELSE <<>>] : s \in lstsq(W_f, rhs)}

(* --------------------------- the notebook run -------------------------- *)
\* One run: a frame W, its facet list, a radius, and whether the LP solver
\* gives up on W (a solver is deterministic: every call on W ends alike).
\* The run calls norm_row and is_omnidir on W, then pbe for each domain,
\* then relu on an input x with one of the biases, then relu_inv.
VARIABLES W, facetList, radius, fault, pc, nr, om, alpha, x, z, bias, inv

vars == <<W, facetList, radius, fault, pc, nr, om, alpha, x, z, bias, inv>>

\* inputs x on the unit sphere: two rows of the palette and two other points
Inputs ==
    { <<Zero, One>>, <<Q(4, 5), Q(3, 5)>>, <<One, Zero>>, <<QInt(-1), Zero>> }

NoPbe == [kind |-> "none", msg |-> "", val |-> <<>>, calls |-> {}, visits |-> <<>>]
NoInv == [kind |-> "none", msg |-> "", x |-> <<>>, f_ind |-> <<>>, i |-> -1, shown |-> <<>>]

Init ==
    /\ W \in Frames
    /\ facetList \in FacetLists(W)
    /\ radius \in 1..MaxRadius
    /\ fault \in (IF matrix_rank(W) = Dim THEN BOOLEAN ELSE {FALSE})
    /\ pc = "start"
    /\ nr = [kind |-> "none", W_norm |-> <<>>, norm |-> <<>>]
    /\ om = [ret |-> "unset", out |-> "", lp |-> FALSE]
    /\ alpha = [K \in Domains |-> NoPbe]
    /\ x = <<>>
    /\ z = <<>>
    /\ bias = "none"
    /\ inv = NoInv

\* W_norm, norm = norm_row(W)
NormRow ==
    /\ pc = "start"
    /\ nr' = norm_row(W)
    /\ pc' = "normed"
    /\ UNCHANGED <<W, facetList, radius, fault, om, alpha, x, z, bias, inv>>

\* is_omnidir(W)
IsOmnidir ==
    /\ pc = "normed"
    /\ om' = is_omnidir(W, fault)
    /\ pc' = "checked"
    /\ UNCHANGED <<W, facetList, radius, fault, nr, alpha, x, z, bias, inv>>

\* the stage before and after the call of pbe for domain K
PcBefore(K) == IF K = "sphere" THEN "checked" ELSE IF K = "ball" THEN "sphere" ELSE "ball"

\* alpha[K] = pbe(W, facets, K, radius)
Pbe(K) ==
    /\ pc = PcBefore(K)
    /\ alpha' = [alpha EXCEPT ![K] = pbe(W, facetList, K, radius, fault)]
    /\ pc' = K
    /\ UNCHANGED <<W, facetList, radius, fault, nr, om, x, z, bias, inv>>

\* z = relu(x, W, alpha[K]) for a bias pbe returned
Relu(xx, K) ==
    /\ pc = "cube"
    /\ alpha[K].kind = "array"
    /\ x' = xx
    /\ bias' = K
    /\ z' = relu(xx, W, alpha[K].val)
    /\ pc' = "relu"
    /\ UNCHANGED <<W, facetList, radius, fault, nr, om, alpha, inv>>

\* x_hat = relu_inv(z, W, alpha[bias], facets, mode)
ReluInv(mode) ==
    /\ pc = "relu"
    /\ inv' \in relu_inv(z, W, alpha[bias].val, facetList, mode)
    /\ pc' = "done"
    /\ UNCHANGED <<W, facetList, radius, fault, nr, om, alpha, x, z, bias>>

Next ==
    \/ NormRow
    \/ IsOmnidir
    \/ \E K \in Domains : Pbe(K)
    \/ \E xx \in Inputs, K \in {"sphere", "ball"} : Relu(xx, K)
    \/ \E mode \in {"facet", "support"} : ReluInv(mode)

Spec == Init /\ [][Next]_vars

(* ------------------------------- claims -------------------------------- *)
Called(K) == alpha[K].kind # "none"

HasZeroRow == \E i \in DOMAIN W : W[i] = <<Zero, Zero>>

\* W is what pbe is documented for: is_omnidir(W) is True and every row
\* has a direction
ProperFrame == om.ret = "True" /\ ~HasZeroRow

\* C1: whenever pbe returned a bias vector for both 'sphere' and 'ball' on
\* a frame is_omnidir accepts, every ball entry is <= the sphere entry, is
\* <= 0, and is the clamp min(sphere entry, 0).
C1_BallBelowSphere ==
    (/\ om.ret = "True"
     /\ alpha["sphere"].kind = "array"
     /\ alpha["ball"].kind = "array") =>
        \A v \in DOMAIN W :
            LET s == alpha["sphere"].val[v]
                b == alpha["ball"].val[v]
            IN QLe(b, s) /\ QLe(b, Zero) /\ b = NpMin({s, Zero})

\* C9: norm_row fails with DegenerateRowError on a W with a zero row; it
\* never returns a matrix computed by dividing by a zero norm.
C9_DegenerateRowError ==
    (nr.kind # "none" /\ HasZeroRow) => nr.kind = "DegenerateRowError"

\* the facets of facetList (positions from 1) with every vertex in the
\* support of z
ActiveFacets ==
    {p \in DOMAIN facetList : \A k \in Range(facetList[p]) : QGt(z[k], Zero)}

FacetMode == pc = "done" /\ inv.i >= 0

\* C4: in facet mode on such a frame, when no facet has all its vertices
\* in the support of z, relu_inv fails with NoActiveFacetError and returns
\* no reconstruction.
C4_NoActiveFacetError ==
    (FacetMode /\ ProperFrame /\ ActiveFacets = {}) =>
        (inv.kind = "raise" /\ inv.msg = "NoActiveFacetError")

\* C5: on a W of rank other than n, is_omnidir reports 'not a frame'
\* without calling the LP, and pbe returns no bias vector and runs neither
\* the normalisation nor the loop over the vertices.
C5_NotAFrameRefused ==
    matrix_rank(W) # Dim =>
        /\ om.ret # "unset" => (om.out = "The system is not a frame" /\ ~om.lp)
        /\ \A K \in Domains :
              Called(K) =>
                  /\ alpha[K].kind # "array"
                  /\ "linprog" \notin alpha[K].calls
                  /\ "norm_row" \notin alpha[K].calls
                  /\ alpha[K].visits = <<>>

\* C8: when the LP solver ends with a status that is neither optimal nor
\* infeasible, the call ends in a SolverError: is_omnidir raises it and pbe
\* computes no bias vector.
C8_SolverErrorSurfaced ==
    (matrix_rank(W) = Dim /\ linprog(W, fault) = MsgOther) =>
        /\ om.ret # "unset" => om.ret = "SolverError"
        /\ \A K \in Domains :
              Called(K) =>
                  /\ alpha[K].kind = "raise"
                  /\ alpha[K].msg = "SolverError"
                  /\ "norm_row" \notin alpha[K].calls

\* the run the round trip is about: x on the unit sphere, the bias
\* pbe(W, facets, 'sphere') with the default radius, W such a frame with
\* the facets of its hull, relu_inv in facet mode
RoundTripRun ==
    /\ FacetMode
    /\ bias = "sphere"
    /\ radius = 1
    /\ ProperFrame
    /\ facetList \in facets(W)

\* C2 as stated: on such a run relu_inv(relu(x, W, alpha), W, alpha, facets)
\* returns x.
C2_RoundTrip == RoundTripRun => (inv.kind = "array" /\ inv.x = x)

\* C2 as amended: on such a run relu_inv returns x whenever some facet has
\* all its vertices in the support of z and the rows of the first such
\* facet are linearly independent.
C2_RoundTripOnActiveFacet ==
    (/\ FacetMode
     /\ bias = "sphere"
     /\ radius = 1
     /\ om.ret = "True"
     /\ ActiveFacets # {}
     /\ Cross(W[inv.f_ind[1]], W[inv.f_ind[2]]) # Zero
     /\ facetList \in facets(W))
        => (inv.kind = "array" /\ inv.x = x)

\* a round trip through a fully active facet that is not the first of the list
C2_Witness ==
    /\ RoundTripRun
    /\ ActiveFacets # {}
    /\ inv.i >= 1
    /\ Cross(W[inv.f_ind[1]], W[inv.f_ind[2]]) # Zero
    /\ inv.x = x
    /\ \E v \in DOMAIN W : QLt(Zero, alpha["sphere"].val[v])

\* C3: in facet mode the facet used is the first facet of the list with all
\* its vertices in the support of z (when there is one); the index and the
\* vertices named in the message are those of that facet, and x is the
\* least-squares solution on exactly those rows.
C3_FirstActiveFacetUsed ==
    FacetMode =>
        LET p == inv.i + 1 IN
        /\ p \in DOMAIN facetList
        /\ ActiveFacets # {} => (p \in ActiveFacets /\ \A q \in ActiveFacets : p <= q)
        /\ inv.shown = facetList[p]
        /\ inv.f_ind = inv.shown
        /\ [kind |-> inv.kind, msg |-> inv.msg, x |-> inv.x] \in
              lstsq([q \in DOMAIN inv.shown |-> W[inv.shown[q]]],
                    [q \in DOMAIN inv.shown |->
                        QAdd(z[inv.shown[q]], alpha[bias].val[inv.shown[q]])])

\* several facets are active, the first of the list is not, and the first
\* active one was used
C3_Witness ==
    /\ FacetMode
    /\ Cardinality(ActiveFacets) >= 2
    /\ 1 \notin ActiveFacets
    /\ inv.i + 1 \in ActiveFacets
    /\ inv.kind = "array"

\* C6: when is_omnidir(W) is False, pbe returns the 'not omnidirectional'
\* message for every K and radius, and runs no normalisation, no
\* neighbourhood computation and no conic program.
C6_NotOmnidirectionalRefused ==
    \A K \in Domains :
        (Called(K) /\ om.ret = "False") =>
            /\ alpha[K].kind = "str"
            /\ alpha[K].msg = MsgNotOmni
            /\ alpha[K].calls \cap {"norm_row", "alpha_S"} = {}
            /\ alpha[K].visits = <<>>

\* pbe was called for all three domains on a frame the LP found infeasible
C6_Witness ==
    /\ om.ret = "False"
    /\ om.lp
    /\ radius = MaxRadius
    /\ \A K \in Domains : alpha[K].kind = "str"

\* C7: for a K other than 'sphere' and 'ball', pbe on such a frame returns
\* the unsupported-domain message, and no bias vector.
C7_UnsupportedDomain ==
    (Called("cube") /\ ProperFrame) =>
        (alpha["cube"].kind = "str" /\ alpha["cube"].msg = MsgDomain)

\* the vertices that share a facet with v
SharingFacet(v) ==
    {u \in DOMAIN W : \E q \in DOMAIN facetList : {u, v} \subseteq Range(facetList[q])}

\* C10: for every vertex v the loop of pbe reaches on such a frame, the
\* neighbourhood is the set of vertices of the facets containing v, and it
\* contains v, so the minimum is taken over a non-empty set.
C10_NeighbourhoodHasSelf ==
    ProperFrame =>
        \A K \in Domains : \A p \in DOMAIN alpha[K].visits :
            LET nb == alpha[K].visits[p].neighbours IN
            nb = SharingFacet(p - 1) /\ p - 1 \in nb /\ nb # {}

\* the minimum pairwise correlation of row v of the normalised matrix
\* against the rows of the vertices sharing a facet with v
NaiveMin(v) ==
    NpMin({Dot(nr.W_norm[v], nr.W_norm[u]) : u \in SharingFacet(v)})

\* the vector pbe returns, entry v: the value appended for v, divided by
\* the norm of row v and by the radius
Scaled(app, v) == QMul(QMul(app, QRecip(nr.norm[v])), QRecip(QInt(radius)))

\* C11: when pbe(W, facets, K, radius) has just ended, at every vertex v
\* its loop passed with a non-empty neighbourhood, alpha_S was called if
\* and only if the minimum pairwise correlation of v against its
\* neighbourhood is < 0; its result then replaced the minimum, and
\* otherwise the minimum was kept; the value appended is that value
\* ('sphere') or its clamp at 0 ('ball'), and the vector returned is those
\* values scaled by 1/norm and 1/radius.
C11_ConicSolverOnNegativeMinimum ==
    \A K \in Domains :
        pc = K =>
        /\ "alpha_S" \in alpha[K].calls <=>
               \E p \in DOMAIN alpha[K].visits : alpha[K].visits[p].socp
        /\ \A p \in DOMAIN alpha[K].visits :
              LET pass == alpha[K].visits[p]
                  v == p - 1
                  naive == NaiveMin(v)
                  negative == QLt(naive, Zero)
              IN SharingFacet(v) # {} =>
                    /\ pass.socp <=> negative
                    /\ negative =>
                          pass.min_corr =
                              alpha_S([u \in SharingFacet(v) |-> nr.W_norm[u]])
                    /\ ~negative => pass.min_corr = naive
                    /\ K = "sphere" => pass.app = pass.min_corr
                    /\ K = "ball" => pass.app = NpMin({pass.min_corr, Zero})
        /\ alpha[K].kind = "array" =>
              \A v \in DOMAIN W :
                  alpha[K].val[v] = Scaled(alpha[K].visits[v + 1].app, v)

\* a returned sphere vector with the conic program solved at one vertex,
\* its value below the pairwise minimum there, and the positive pairwise
\* minimum kept at another
C11_Witness ==
    /\ alpha["sphere"].kind = "array"
    /\ ProperFrame
    /\ \E p, q \in DOMAIN alpha["sphere"].visits :
          /\ alpha["sphere"].visits[p].socp
          /\ QLt(alpha["sphere"].visits[p].min_corr,
                 alpha["sphere"].visits[p].pair_min)
          /\ ~alpha["sphere"].visits[q].socp
          /\ QLt(Zero, alpha["sphere"].visits[q].min_corr)
          /\ alpha["sphere"].visits[q].min_corr = NaiveMin(q - 1)

\* the list with its first two facets exchanged
SwapFirst(L) ==
    IF Len(L) < 2 THEN L
    ELSE [p \in 1..Len(L) |-> IF p = 1 THEN L[2] ELSE IF p = 2 THEN L[1] ELSE L[p]]

\* the list with the vertices of its first facet exchanged
FlipFirst(L) ==
    [p \in 1..Len(L) |-> IF p = 1 THEN <<L[1][2], L[1][1]>> ELSE L[p]]

\* reorderings of the facets of L and of the vertices inside a facet: the
\* three that generate every reordering
Reorderings(L) == {Rotate(L, 1), SwapFirst(L), FlipFirst(L)}

\* the vertex sets of the facet relu_inv may use on the list L in facet mode
ChosenFacets(L) ==
    {Range(o.f_ind) : o \in relu_inv(z, W, alpha[bias].val, L, "facet")}

\* C12: pbe returns the same on a reordered facet list as on the list it
\* was given (same bias vector, or same message or exception), for every
\* K; and when relu_inv ran in facet mode with two facets of different
\* vertex sets fully active, some rotation of the list makes it use a
\* different facet.
C12_PbeOrderFreeReluInvNot ==
    /\ \A K \in Domains :
          pc = K =>
              \A L \in Reorderings(facetList) :
                  LET r == pbe(W, L, K, radius, fault) IN
                  /\ r.kind = alpha[K].kind
                  /\ r.msg = alpha[K].msg
                  /\ r.val = alpha[K].val
    /\ (/\ FacetMode
        /\ \E p, q \in ActiveFacets : Range(facetList[p]) # Range(facetList[q])) =>
          \E r \in 1..(Len(facetList) - 1) :
              ChosenFacets(Rotate(facetList, r)) # {Range(inv.f_ind)}

\* a bias vector with distinct entries that a reordering of the list
\* leaves as it is, while relu_inv uses another facet on the reordered list
C12_Witness ==
    /\ FacetMode
    /\ ProperFrame
    /\ inv.kind = "array"
    /\ Cardinality({alpha[bias].val[v] : v \in DOMAIN W}) >= 2
    /\ \E L \in Reorderings(facetList) :
          /\ pbe(W, L, bias, radius, fault).val = alpha[bias].val
          /\ ChosenFacets(L) # {Range(inv.f_ind)}

====
